---- MODULE Spec2Model ----
(***************************************************************************)
(* WebRTC signaling relay (backend/app.py): the in-memory peer mailbox     *)
(* `peers`, the background expiry sweep `cleanup_old_peers`, and the       *)
(* push-channel registry `ConnectionManager`.                              *)
(*                                                                         *)
(* The server is one asyncio event loop: a handler runs atomically from    *)
(* one `await` that really suspends to the next.  Every action below is    *)
(* one such atomic stretch of a handler.                                   *)
(***************************************************************************)
EXTENDS Integers, Sequences, FiniteSets, TLC

(* ---------------------------- bounds ----------------------------------- *)
\* longest candidate queue a record holds in the model
MaxCands == 2
\* number of websocket connections opened in a behaviour
NChan == 2
\* number of send_text calls that may be suspended at the same time
MaxInflight == 1

(* ------------------------- program constants --------------------------- *)
\* timedelta(minutes=30): the idle time after which the sweep evicts
TTL == 30

(* ---------------------------- input sets ------------------------------- *)
\* peer identifiers (wallet addresses); also the push-channel client ids.
\* A request names two different peers: from_peer signals to_peer.
Peers == {"A", "B"}
\* opaque session descriptions: the payloads of offers, and of answers
Signals == {"s1", "s2"}
Answers == {"y1"}
\* opaque ICE candidates
Cands == {"c1", "c2"}
\* Python's None
Null == "null"
\* the clock advances in steps of one TTL up to two: a record is seen at the
\* ages 0, TTL (not yet expired) and 2 * TTL (expired)
Tick == TTL
MaxTime == 2 * TTL

\* the WebSocket objects, one per connection a client opens
Channels == 1 .. NChan

VARIABLES
    peers,               \* dict peer_id -> PeerData (line 37)
    now,                 \* datetime.utcnow(), in minutes
    active_connections,  \* manager.active_connections: dict client_id -> WebSocket
    ws,                  \* per WebSocket: where its websocket_endpoint handler is
    open,                \* per WebSocket: the client's end is still connected
    sends,               \* send_personal_message calls suspended in send_text
    sweeper,             \* the cleanup_old_peers task: "sleep" between iterations
    last,                \* the handler step that ran last: operation, arguments, result
    hist                 \* per peer: what has been written to it (history only)

vars == <<peers, now, active_connections, ws, open, sends, sweeper, last, hist>>

(* ------------------------------ PeerData ------------------------------- *)
\* PeerData(): offer None, answer None, candidates [], last_updated utcnow()
PeerData(t) ==
    [offer |-> Null, answer |-> Null, candidates |-> <<>>, last_updated |-> t]

\* an empty dict
EmptyDict == [k \in {} |-> Null]

\* a faulty get_peer_data: the new record is returned but never stored
get_peer_data_unstored(ps, peer_id, t) == ps

\* get_peer_data: the dict after get-or-create of peer_id
get_peer_data(ps, peer_id, t) ==
    IF peer_id \in DOMAIN ps
    THEN ps
    ELSE [p \in DOMAIN ps \cup {peer_id} |->
             IF p = peer_id THEN PeerData(t) ELSE ps[p]]

\* del d[k]
Del(d, k) == [p \in DOMAIN d \ {k} |-> d[p]]

(* ------------------------------ history -------------------------------- *)
\* written:  the peer was the recipient of a write since its last eviction
\* offered:  the offer last set for the peer since its last eviction
\* answered: an answer was set for the peer since the previous drain of it
\* appended: how many candidates were appended for it since the previous drain
\* queued:   the candidates appended since the previous drain or eviction of it
\* channel:  the WebSocket registered last under the peer's id (0: none yet)
NoHist ==
    [written |-> FALSE, offered |-> Null, answered |-> FALSE, appended |-> 0,
     queued |-> <<>>, channel |-> 0]

\* `last` is one of these: the operation, the peer or client it names, its
\* argument (with, for a drain and a sweep, the mailbox it found) and its result
Event(op, peer, arg, resp) == [op |-> op, peer |-> peer, arg |-> arg, resp |-> resp]

(* ------------------------------- Init ---------------------------------- *)
Init ==
    /\ peers = EmptyDict
    /\ now = 0
    /\ active_connections = EmptyDict
    /\ ws = [c \in Channels |-> [pc |-> "new", client_id |-> Null]]
    /\ open = [c \in Channels |-> FALSE]
    /\ sends = {}
    /\ sweeper = "sleep"
    /\ last = Event("startup", Null, Null, Null)
    /\ hist = [p \in Peers |-> NoHist]

(* ------------------------- ConnectionManager --------------------------- *)
\* a faulty connect: an id that is already registered keeps its first channel
connect_keeps_first(conns, websocket, client_id) ==
    [c \in DOMAIN conns \cup {client_id} |->
        IF c \in DOMAIN conns THEN conns[c] ELSE websocket]

\* a faulty connect: the registry is set, not updated
connect_drops_others(conns, websocket, client_id) ==
    [c \in {client_id} |-> websocket]

\* connect, after the accept: self.active_connections[client_id] = websocket
connect(conns, websocket, client_id) ==
    [c \in DOMAIN conns \cup {client_id} |->
        IF c = client_id THEN websocket ELSE conns[c]]

\* a faulty disconnect: the entry stays
disconnect_noop(conns, client_id) == conns

\* a faulty disconnect: the registry is emptied
disconnect_all(conns, client_id) == EmptyDict

\* disconnect: if client_id in self.active_connections: del ...[client_id]
disconnect(conns, client_id) ==
    IF client_id \in DOMAIN conns THEN Del(conns, client_id) ELSE conns

\* json.dumps({"type": "offer", "from": from_peer, "signal": signal})
OfferMessage(from_peer, signal) ==
    [type |-> "offer", from |-> from_peer, signal |-> signal]

\* json.dumps({"type": "pong"})
PongMessage == [type |-> "pong"]

\* the body of a POST /offer or POST /answer request (SignalData)
SignalData(from_peer, to_peer, signal) ==
    [from_peer |-> from_peer, to_peer |-> to_peer, signal |-> signal]

\* a send_personal_message(message, client_id) call suspended in
\* self.active_connections[client_id].send_text(message), with its caller:
\* `by` is 0 for a POST /offer handler, whose request is `request`, and else
\* the WebSocket whose handler answers a ping
Suspended(by, request, message, client_id, websocket) ==
    [by |-> by, request |-> request, msg |-> message, client_id |-> client_id,
     websocket |-> websocket]

\* a faulty send_personal_message: the push is never attempted
send_personal_message_dropped(by, request, message, client_id) == sends

\* a faulty send_personal_message: without a registered channel the message
\* goes to the channel the client registered last
send_personal_message_unchecked(by, request, message, client_id) ==
    IF client_id \in DOMAIN active_connections
    THEN sends \cup {Suspended(by, request, message, client_id,
                               active_connections[client_id])}
    ELSE IF hist[client_id].channel \in Channels
         THEN sends \cup {Suspended(by, request, message, client_id,
                                    hist[client_id].channel)}
         ELSE sends

\* send_personal_message up to its await: the calls suspended afterwards
send_personal_message(by, request, message, client_id) ==
    IF client_id \in DOMAIN active_connections
    THEN sends \cup {Suspended(by, request, message, client_id,
                               active_connections[client_id])}
    ELSE sends

(* ---------------------------- HTTP handlers ---------------------------- *)
\* a faulty handle_offer: the status reports whether the push went through
offer_status_of_push(pushed) ==
    [status |-> IF pushed THEN "Offer received" ELSE "Peer unreachable"]

\* what POST /offer returns; `pushed` is what send_personal_message returned,
\* which the handler drops
offer_status(pushed) == [status |-> "Offer received"]

\* POST /offer: store the offer, then try the push.  With no registered channel
\* send_personal_message returns False at once and the handler returns; with
\* one, the handler suspends in send_text (send_text_returns ends it).
handle_offer(from_peer, to_peer, signal) ==
    /\ to_peer \in DOMAIN active_connections => Cardinality(sends) < MaxInflight
    /\ peers' = [get_peer_data(peers, to_peer, now) EXCEPT
                    ![to_peer].offer = signal,
                    ![to_peer].last_updated = now]
    /\ sends' = send_personal_message(0, SignalData(from_peer, to_peer, signal),
                                       OfferMessage(from_peer, signal), to_peer)
    /\ last' = Event("offer", to_peer, SignalData(from_peer, to_peer, signal),
                     IF to_peer \in DOMAIN active_connections
                     THEN [status |-> Null]
                     ELSE offer_status(FALSE))
    /\ hist' = [hist EXCEPT ![to_peer].written = TRUE, ![to_peer].offered = signal]
    /\ UNCHANGED <<sweeper, now, active_connections, ws, open>>

\* a faulty handle_answer: the answer is pushed the way an offer is
handle_answer_pushes(from_peer, to_peer, signal) ==
    /\ to_peer \in DOMAIN active_connections => Cardinality(sends) < MaxInflight
    /\ peers' = [get_peer_data(peers, to_peer, now) EXCEPT
                    ![to_peer].answer = signal,
                    ![to_peer].last_updated = now]
    /\ sends' = send_personal_message(0, SignalData(from_peer, to_peer, signal),
                                       [type |-> "answer"], to_peer)
    /\ last' = Event("answer", to_peer, signal,
                     [status |-> "Answer received"])
    /\ hist' = [hist EXCEPT ![to_peer].written = TRUE, ![to_peer].answered = TRUE]
    /\ UNCHANGED <<sweeper, now, active_connections, ws, open>>

\* POST /answer: store the answer
handle_answer(from_peer, to_peer, signal) ==
    /\ peers' = [get_peer_data(peers, to_peer, now) EXCEPT
                    ![to_peer].answer = signal,
                    ![to_peer].last_updated = now]
    /\ last' = Event("answer", to_peer, signal,
                     [status |-> "Answer received"])
    /\ hist' = [hist EXCEPT ![to_peer].written = TRUE, ![to_peer].answered = TRUE]
    /\ UNCHANGED <<sweeper, now, active_connections, ws, open, sends>>

\* POST /ice-candidate: append the candidate
handle_ice_candidate(from_peer, to_peer, candidate) ==
    /\ to_peer \in DOMAIN peers => Len(peers[to_peer].candidates) < MaxCands
    /\ peers' = [get_peer_data(peers, to_peer, now) EXCEPT
                    ![to_peer].candidates = Append(@, candidate),
                    ![to_peer].last_updated = now]
    /\ last' = Event("ice-candidate", to_peer, candidate,
                     [status |-> "ICE candidate received"])
    /\ hist' = [hist EXCEPT ![to_peer].written = TRUE,
                            ![to_peer].appended = @ + 1,
                            ![to_peer].queued = Append(@, candidate)]
    /\ UNCHANGED <<sweeper, now, active_connections, ws, open, sends>>

\* a faulty check_signals: an unknown peer gets the snapshot of an empty record
check_response_empty(ps, peer_id, t) ==
    [type |-> "check",
     offer |-> IF peer_id \in DOMAIN ps THEN ps[peer_id].offer ELSE Null,
     answer |-> IF peer_id \in DOMAIN ps THEN ps[peer_id].answer ELSE Null,
     has_candidates |-> peer_id \in DOMAIN ps /\ Len(ps[peer_id].candidates) > 0,
     candidates |-> IF peer_id \in DOMAIN ps THEN ps[peer_id].candidates ELSE <<>>,
     timestamp |-> t]

\* a faulty check_signals: the response holds the candidate list itself, not a
\* copy, and the clear empties it
check_response_no_copy(ps, peer_id, t) ==
    IF peer_id \notin DOMAIN ps
    THEN [type |-> "no_peer"]
    ELSE [type |-> "check",
          offer |-> ps[peer_id].offer,
          answer |-> ps[peer_id].answer,
          has_candidates |-> Len(ps[peer_id].candidates) > 0,
          candidates |-> <<>>,
          timestamp |-> t]

\* the response of GET /check/{peer_id}
check_response(ps, peer_id, t) ==
    IF peer_id \notin DOMAIN ps
    THEN [type |-> "no_peer"]
    ELSE [type |-> "check",
          offer |-> ps[peer_id].offer,
          answer |-> ps[peer_id].answer,
          has_candidates |-> Len(ps[peer_id].candidates) > 0,
          candidates |-> ps[peer_id].candidates,
          timestamp |-> t]

\* faulty drains: one clears the offer too, one keeps the candidates, one
\* keeps the answer
check_clear_offer_too(ps, peer_id) ==
    IF peer_id \notin DOMAIN ps
    THEN ps
    ELSE [ps EXCEPT ![peer_id].offer = Null, ![peer_id].answer = Null,
                    ![peer_id].candidates = <<>>]

check_clear_keeps_candidates(ps, peer_id) ==
    IF peer_id \notin DOMAIN ps THEN ps ELSE [ps EXCEPT ![peer_id].answer = Null]

check_clear_keeps_answer(ps, peer_id) ==
    IF peer_id \notin DOMAIN ps THEN ps ELSE [ps EXCEPT ![peer_id].candidates = <<>>]

\* the mailbox after GET /check/{peer_id}: answer and candidates are cleared
check_clear(ps, peer_id) ==
    IF peer_id \notin DOMAIN ps
    THEN ps
    ELSE [ps EXCEPT ![peer_id].answer = Null, ![peer_id].candidates = <<>>]

\* GET /check/{peer_id}: the drain
check_signals(peer_id) ==
    /\ peers' = check_clear(peers, peer_id)
    /\ last' = Event("check", peer_id,
                     [before |-> hist[peer_id], mailbox |-> peers,
                      previous |-> IF last.op = "check" /\ last.peer = peer_id
                                   THEN last.resp
                                   ELSE [type |-> "none"]],
                     check_response(peers, peer_id, now))
    /\ hist' = [hist EXCEPT ![peer_id].answered = FALSE,
                            ![peer_id].appended = 0,
                            ![peer_id].queued = <<>>]
    /\ UNCHANGED <<sweeper, now, active_connections, ws, open, sends>>

(* --------------------------- background sweep -------------------------- *)
\* a faulty sweep: a record idle for exactly the TTL is expired already
expired_at_ttl(ps, t) == {p \in DOMAIN ps : t - ps[p].last_updated >= TTL}

\* expired = [peer_id for peer_id, data in peers.items()
\*            if now - data.last_updated > timedelta(minutes=30)]
expired(ps, t) == {p \in DOMAIN ps : t - ps[p].last_updated > TTL}

\* a faulty loop: the try is around the loop, an exception ends the task
after_iteration_uncaught(raised) == IF raised THEN "dead" ELSE "sleep"

\* where the task is after an iteration: the except clause is inside the loop,
\* so with or without an exception it goes on to `await asyncio.sleep(60)`
after_iteration(raised) == "sleep"

\* the history after the records of `gone` were deleted
evicted(gone) ==
    [p \in Peers |->
        IF p \in gone
        THEN [hist[p] EXCEPT !.written = FALSE, !.offered = Null, !.queued = <<>>]
        ELSE hist[p]]

\* two iterations in a row are told apart by their turn
turn == IF last.op \in {"sweep", "sweep_failed"} THEN 1 - last.arg.turn ELSE 0

\* one iteration of cleanup_old_peers, from the end of a sleep to the next
\* sleep: del peers[peer_id] for every expired peer
cleanup_old_peers ==
    /\ sweeper = "sleep"
    /\ peers' = [p \in DOMAIN peers \ expired(peers, now) |-> peers[p]]
    /\ sweeper' = after_iteration(FALSE)
    /\ last' = Event("sweep", Null,
                     [expired |-> expired(peers, now), mailbox |-> peers,
                      turn |-> turn], Null)
    /\ hist' = evicted(expired(peers, now))
    /\ UNCHANGED <<now, active_connections, ws, open, sends>>

\* an iteration in which the try block raises an Exception, after `gone` of
\* the expired records were deleted: it is logged (lines 81-82)
cleanup_raises(gone) ==
    /\ sweeper = "sleep"
    /\ gone \subseteq expired(peers, now)
    /\ peers' = [p \in DOMAIN peers \ gone |-> peers[p]]
    /\ sweeper' = after_iteration(TRUE)
    /\ last' = Event("sweep_failed", Null,
                     [expired |-> gone, mailbox |-> peers, turn |-> turn], Null)
    /\ hist' = evicted(gone)
    /\ UNCHANGED <<now, active_connections, ws, open, sends>>

\* time passes
Advance ==
    /\ now + Tick <= MaxTime
    /\ now' = now + Tick
    /\ last' = Event("tick", Null, Null, Null)
    /\ UNCHANGED <<sweeper, peers, active_connections, ws, open, sends, hist>>

(* ------------------- the mailbox alone: no push channel ---------------- *)
NextMailbox ==
    \/ \E t \in Peers : \E f \in Peers \ {t}, s \in Signals : handle_offer(f, t, s)
    \/ \E t \in Peers : \E f \in Peers \ {t}, s \in Answers : handle_answer(f, t, s)
    \/ \E t \in Peers : \E f \in Peers \ {t}, c \in Cands : handle_ice_candidate(f, t, c)
    \/ \E p \in Peers : check_signals(p)
    \/ cleanup_old_peers
    \/ Advance

SpecMailbox == Init /\ [][NextMailbox]_vars

(* -------------------------- websocket_endpoint ------------------------- *)
\* a client opens /ws/{client_id}: the handler starts and suspends in
\* manager.connect, at `await websocket.accept()`.  WebSocket objects are
\* taken in order.
websocket_endpoint(websocket, client_id) ==
    /\ ws[websocket].pc = "new"
    /\ \A w \in Channels : w < websocket => ws[w].pc # "new"
    /\ ws' = [ws EXCEPT ![websocket] = [pc |-> "accept", client_id |-> client_id]]
    /\ open' = [open EXCEPT ![websocket] = TRUE]
    /\ last' = Event("ws_open", client_id, websocket, Null)
    /\ UNCHANGED <<sweeper, peers, now, active_connections, sends, hist>>

\* the client's end of a connection goes away (closed tab, network drop)
client_closes(websocket) ==
    /\ ws[websocket].pc \in {"accept", "receive", "send"}
    /\ open[websocket]
    /\ open' = [open EXCEPT ![websocket] = FALSE]
    /\ last' = Event("ws_close", ws[websocket].client_id, websocket, Null)
    /\ UNCHANGED <<sweeper, peers, now, active_connections, ws, sends, hist>>

\* manager.connect: the accept returned, the channel is registered and the
\* handler goes on to `await websocket.receive_text()`
connect_registers(websocket) ==
    /\ ws[websocket].pc = "accept"
    /\ open[websocket]
    /\ active_connections' =
           connect(active_connections, websocket, ws[websocket].client_id)
    /\ ws' = [ws EXCEPT ![websocket].pc = "receive"]
    /\ last' = Event("connect", ws[websocket].client_id, websocket,
                     [registry |-> active_connections])
    /\ hist' = [hist EXCEPT ![ws[websocket].client_id].channel = websocket]
    /\ UNCHANGED <<sweeper, peers, now, open, sends>>

\* manager.connect: the accept raised; the exception leaves websocket_endpoint
\* before its try block, so nothing is registered and nothing is cleaned up
connect_raises(websocket) ==
    /\ ws[websocket].pc = "accept"
    /\ ~open[websocket]
    /\ ws' = [ws EXCEPT ![websocket].pc = "closed"]
    /\ last' = Event("connect_failed", ws[websocket].client_id, websocket,
                     [registry |-> active_connections])
    /\ UNCHANGED <<sweeper, peers, now, active_connections, open, sends, hist>>

\* the frames a client sends: a ping, any other JSON, text that is not JSON
Frames == {"ping", "other", "invalid"}

\* receive_text returned a frame.  A ping is answered through
\* send_personal_message(pong, client_id), which returns False at once when the
\* id has no registered channel; anything else is only logged.
receive_text(websocket, frame) ==
    LET client_id == ws[websocket].client_id
        pushes == frame = "ping" /\ client_id \in DOMAIN active_connections
    IN  /\ ws[websocket].pc = "receive"
        /\ open[websocket]
        /\ pushes => Cardinality(sends) < MaxInflight
        /\ sends' = IF frame = "ping"
                    THEN send_personal_message(websocket, SignalData(Null, Null, Null),
                                               PongMessage, client_id)
                    ELSE sends
        /\ ws' = [ws EXCEPT ![websocket].pc = IF pushes THEN "send" ELSE "receive"]
        /\ last' = Event("frame", client_id, [websocket |-> websocket, frame |-> frame],
                         IF frame = "ping" /\ ~pushes THEN [returned |-> FALSE] ELSE Null)
        /\ UNCHANGED <<sweeper, peers, now, active_connections, open, hist>>

\* receive_text raised WebSocketDisconnect (or anything else): the finally
\* block runs manager.disconnect(client_id) and the handler ends
receive_raises(websocket) ==
    /\ ws[websocket].pc = "receive"
    /\ ~open[websocket]
    /\ active_connections' = disconnect(active_connections, ws[websocket].client_id)
    /\ ws' = [ws EXCEPT ![websocket].pc = "closed"]
    /\ last' = Event("ws_closed", ws[websocket].client_id, websocket,
                     [registry |-> active_connections])
    /\ UNCHANGED <<sweeper, peers, now, open, sends, hist>>

\* a faulty send_personal_message: a failed send leaves the registry alone
after_send_keeps(conns, client_id, ok) == conns

\* the registry after send_text returned (ok) or raised: on a failure
\* send_personal_message calls self.disconnect(client_id)
after_send(conns, client_id, ok) ==
    IF ok THEN conns ELSE disconnect(conns, client_id)

\* a suspended send_text ends: it returns if the channel's client is still
\* there and raises otherwise.  send_personal_message returns True / False to
\* its caller, which goes on: the POST /offer handler returns its response,
\* the websocket handler goes back to receive_text.
send_text_ends(s) ==
    LET ok == open[s.websocket]
    IN  /\ s \in sends
        /\ sends' = sends \ {s}
        /\ active_connections' = after_send(active_connections, s.client_id, ok)
        /\ ws' = IF s.by = 0 THEN ws ELSE [ws EXCEPT ![s.by].pc = "receive"]
        /\ last' = Event("send", s.client_id, s,
                         [delivered |-> ok, returned |-> ok,
                          http |-> IF s.by = 0 THEN offer_status(ok) ELSE Null,
                          registry |-> active_connections, mailbox |-> peers])
        /\ UNCHANGED <<sweeper, peers, now, open, hist>>

(* --------------- the registry, the push and the offer mailbox ---------- *)
NextRegistry ==
    \/ \E w \in Channels, c \in Peers : websocket_endpoint(w, c)
    \/ \E w \in Channels : client_closes(w)
    \/ \E w \in Channels : connect_registers(w)
    \/ \E w \in Channels : connect_raises(w)
    \/ \E w \in Channels, f \in Frames : receive_text(w, f)
    \/ \E w \in Channels : receive_raises(w)
    \/ \E s \in sends : send_text_ends(s)
    \/ \E t \in Peers : \E f \in Peers \ {t}, s \in Signals : handle_offer(f, t, s)

SpecRegistry == Init /\ [][NextRegistry]_vars

(* --------------------- the sweep task, with fairness ------------------- *)
\* one iteration of the loop, failed or not
SweepIteration == cleanup_old_peers \/ \E gone \in SUBSET Peers : cleanup_raises(gone)

NextSweep ==
    \/ \E t \in Peers : \E f \in Peers \ {t}, s \in Signals : handle_offer(f, t, s)
    \/ \E t \in Peers : \E f \in Peers \ {t}, s \in Answers : handle_answer(f, t, s)
    \/ \E p \in Peers : check_signals(p)
    \/ cleanup_old_peers
    \/ \E gone \in SUBSET Peers : cleanup_raises(gone)
    \/ Advance

\* `await asyncio.sleep(60)` returns: a sleeping task runs its next iteration
FairSweep == WF_vars(SweepIteration)

SpecSweepLive == Init /\ [][NextSweep]_vars /\ FairSweep

(* ---------------- the push channels alone, with fairness ---------------- *)
NextChannel ==
    \/ \E w \in Channels, c \in Peers : websocket_endpoint(w, c)
    \/ \E w \in Channels : client_closes(w)
    \/ \E w \in Channels : connect_registers(w)
    \/ \E w \in Channels : connect_raises(w)
    \/ \E w \in Channels, f \in Frames : receive_text(w, f)
    \/ \E w \in Channels : receive_raises(w)
    \/ \E s \in sends : send_text_ends(s)

\* an await on a channel whose client is gone does not hang: the receive_text
\* of every handler and the send_text every handler waits for come to an end
FairChannel ==
    /\ \A w \in Channels : WF_vars(receive_raises(w))
    /\ \A w \in Channels : WF_vars(\E s \in sends : s.by = w /\ send_text_ends(s))

SpecChannelLive == Init /\ [][NextChannel]_vars /\ FairChannel

(* ------- answers and candidates while push channels come and go -------- *)
\* one candidate value is enough here: the handler stores it without a look
NextPoll ==
    \/ \E w \in Channels, c \in Peers : websocket_endpoint(w, c)
    \/ \E w \in Channels : client_closes(w)
    \/ \E w \in Channels : connect_registers(w)
    \/ \E w \in Channels : receive_raises(w)
    \/ \E t \in Peers : \E f \in Peers \ {t}, s \in Answers : handle_answer(f, t, s)
    \/ \E t \in Peers : \E f \in Peers \ {t} : handle_ice_candidate(f, t, "c1")
    \/ \E p \in Peers : check_signals(p)

SpecPoll == Init /\ [][NextPoll]_vars

(* ------------------------- the whole server ---------------------------- *)
Next == NextMailbox \/ NextRegistry \/ NextPoll

Spec == Init /\ [][Next]_vars

(* ======================================================================= *)
(*                          Properties of the mailbox                       *)
(* ======================================================================= *)
\* the candidates a drain returned (none with the no-peer result)
Candidates(resp) == IF resp.type = "check" THEN resp.candidates ELSE <<>>

\* C1: once an offer X is set for P, every drain of P returns offer = X, and
\* leaves X stored, until another offer is set or the sweep evicts P.
\* (hist[P].offered is the offer set last since P's last eviction.)
C1_OfferSurvivesDrains ==
    /\ \A p \in Peers :
          hist[p].offered # Null =>
              p \in DOMAIN peers /\ peers[p].offer = hist[p].offered
    /\ (last.op = "check" /\ last.arg.before.offered # Null) =>
          /\ last.resp.type = "check"
          /\ last.resp.offer = last.arg.before.offered
          /\ peers[last.peer].offer = last.arg.before.offered

\* C1 happens: two drains of P in a row both returned the same offer
C1_Witness ==
    /\ last.op = "check"
    /\ last.arg.previous.type = "check"
    /\ last.arg.previous.offer # Null
    /\ last.resp.type = "check"
    /\ last.resp.offer = last.arg.previous.offer

\* C2 as stated: a drain of P returns exactly the candidates appended for P
\* since the previous drain of P; in particular it returns as many as were
\* appended.  (Fails: the sweep may have evicted P in between.)
C2_AppendedSincePreviousDrain ==
    last.op = "check" => Len(Candidates(last.resp)) = last.arg.before.appended

\* C2, amended: a drain of P returns, in append order, exactly the candidates
\* appended for P since the previous drain or the last eviction of P, with
\* has_candidates true iff there are any; a drain right after a drain returns
\* no candidate and has_candidates false.
C2_DrainReturnsQueue ==
    last.op = "check" =>
        /\ Candidates(last.resp) = last.arg.before.queued
        /\ last.resp.type = "check" =>
              last.resp.has_candidates = (Len(last.arg.before.queued) > 0)
        /\ last.arg.previous.type # "none" =>
              /\ Candidates(last.resp) = <<>>
              /\ last.resp.type = "check" => ~last.resp.has_candidates

\* C2 happens: c1 then c2 were appended and the drain returned <<c1, c2>>
C2_Witness ==
    /\ last.op = "check"
    /\ last.resp.type = "check"
    /\ last.resp.has_candidates
    /\ last.resp.candidates = <<"c1", "c2">>
    /\ last.arg.before.appended = 2

\* C3: a drain of P with no answer set for P since the previous drain of P
\* returns no answer: an answer is delivered by at most one drain.
C3_AnswerOneShot ==
    (last.op = "check" /\ ~last.arg.before.answered /\ last.resp.type = "check") =>
        last.resp.answer = Null

\* C3 happens: a drain returned the answer, the drain right after it none
C3_Witness ==
    /\ last.op = "check"
    /\ last.arg.previous.type = "check"
    /\ last.arg.previous.answer # Null
    /\ last.resp.type = "check"
    /\ last.resp.answer = Null

\* C4: a record exists for P iff P was the recipient of an offer, answer or
\* candidate since its last eviction (or startup); a drain neither creates
\* nor deletes a record.
C4_RecordIffWritten ==
    /\ \A p \in Peers : (p \in DOMAIN peers) <=> hist[p].written
    /\ last.op = "check" => DOMAIN peers = DOMAIN last.arg.mailbox

\* C4 happens: a drain left offer, answer and candidates all empty and the
\* record is still there
C4_Witness ==
    /\ last.op = "check"
    /\ last.resp.type = "check"
    /\ last.resp.answer # Null
    /\ last.peer \in DOMAIN peers
    /\ peers[last.peer].offer = Null
    /\ peers[last.peer].answer = Null
    /\ peers[last.peer].candidates = <<>>

\* C5: the drain of a peer that was never written to, or was evicted and not
\* written to again, returns {type: "no_peer"} and leaves the mailbox as it was.
C5_NoPeer ==
    (last.op = "check" /\ ~last.arg.before.written) =>
        /\ last.resp = [type |-> "no_peer"]
        /\ peers = last.arg.mailbox
        /\ last.peer \notin DOMAIN peers

\* C5 happens: candidates were appended for P, P was evicted, and the drain of
\* P returned no_peer while the other peer has a record
C5_Witness ==
    /\ last.op = "check"
    /\ last.resp.type = "no_peer"
    /\ last.arg.before.appended > 0
    /\ DOMAIN peers # {}

\* C6: a sweep removes every record whose last_updated is more than TTL before
\* the current time and keeps every other record as it is.
C6_Sweep ==
    last.op = "sweep" =>
        /\ DOMAIN peers \subseteq DOMAIN last.arg.mailbox
        /\ \A p \in DOMAIN last.arg.mailbox :
              IF now - last.arg.mailbox[p].last_updated > TTL
              THEN p \notin DOMAIN peers
              ELSE p \in DOMAIN peers /\ peers[p] = last.arg.mailbox[p]

\* C6 happens: a sweep evicted one record and kept one idle for exactly TTL
C6_Witness ==
    /\ last.op = "sweep"
    /\ last.arg.expired # {}
    /\ \E p \in DOMAIN peers : now - peers[p].last_updated = TTL

(* ======================================================================= *)
(*                   Properties of the registry and the push               *)
(* ======================================================================= *)
\* C7: the registry resolves an id to the channel connected last under it,
\* and a send for the id goes to that channel only.
\* (hist[C].channel is the channel registered last under C.)
C7_LastConnectWins ==
    /\ \A c \in DOMAIN active_connections :
          active_connections[c] = hist[c].channel
    /\ (last.op = "offer" /\ last.peer \in DOMAIN active_connections) =>
          \E s \in sends : /\ s.by = 0
                           /\ s.request = last.arg
                           /\ s.websocket = hist[last.peer].channel
    /\ (last.op = "frame" /\ last.arg.frame = "ping"
            /\ last.peer \in DOMAIN active_connections) =>
          \E s \in sends : /\ s.by = last.arg.websocket
                           /\ s.websocket = hist[last.peer].channel

\* C7 happens: channel 1 then channel 2 connected under one id, both are
\* open, and an offer was pushed on channel 2
C7_Witness ==
    /\ last.op = "send"
    /\ last.resp.delivered
    /\ last.arg.by = 0
    /\ last.arg.websocket = 2
    /\ hist[last.peer].channel = 2
    /\ ws[1] = [pc |-> "receive", client_id |-> last.peer]
    /\ open[1]

\* C8: POST /offer {from_peer: A, to_peer: B, signal: S} stores S as B's
\* offer, and with a channel registered for B on which the send succeeds, that
\* channel is sent {type: "offer", from: A, signal: S} before the handler
\* returns its response.
C8_OfferPushedAndStored ==
    /\ last.op = "offer" => peers[last.peer].offer = last.arg.signal
    /\ (last.op = "offer" /\ last.peer \in DOMAIN active_connections) =>
          \E s \in sends :
              /\ s.by = 0
              /\ s.request = last.arg
              /\ s.client_id = last.arg.to_peer
              /\ s.websocket = active_connections[last.peer]
              /\ s.msg = [type |-> "offer", from |-> last.arg.from_peer,
                          signal |-> last.arg.signal]
    /\ (last.op = "send" /\ last.arg.by = 0 /\ last.resp.delivered) =>
          /\ last.arg.msg = [type |-> "offer",
                             from |-> last.arg.request.from_peer,
                             signal |-> last.arg.request.signal]
          /\ last.peer = last.arg.request.to_peer
          /\ last.resp.http = [status |-> "Offer received"]

\* C8 happens: an offer was pushed on the recipient's channel and is stored
C8_Witness ==
    /\ last.op = "send"
    /\ last.arg.by = 0
    /\ last.resp.delivered
    /\ last.peer \in DOMAIN active_connections
    /\ peers[last.peer].offer = last.arg.request.signal

\* C9: a send on a registered channel that succeeds returns True and leaves
\* the registry as it was; one that fails returns False and removes the id
\* from the registry, leaving every other id as it was.
C9_SendOutcome ==
    last.op = "send" =>
        /\ last.resp.delivered = open[last.arg.websocket]
        /\ IF last.resp.delivered
           THEN /\ last.resp.returned
                /\ active_connections = last.resp.registry
           ELSE /\ ~last.resp.returned
                /\ last.peer \notin DOMAIN active_connections
                /\ \A c \in Peers \ {last.peer} :
                      /\ c \in DOMAIN active_connections
                            <=> c \in DOMAIN last.resp.registry
                      /\ c \in DOMAIN active_connections =>
                            active_connections[c] = last.resp.registry[c]

\* C9 happens: a send failed on a channel that was registered, and it is
\* registered no more
C9_Witness ==
    /\ last.op = "send"
    /\ ~last.resp.delivered
    /\ last.peer \in DOMAIN last.resp.registry
    /\ last.resp.registry[last.peer] = last.arg.websocket
    /\ last.peer \notin DOMAIN active_connections

\* C10: POST /offer stores the offer and returns {status: "Offer received"}
\* whether the recipient has no channel, the push succeeds or the push fails;
\* a failed push removes the recipient from the registry and changes neither
\* the mailbox nor the response.
C10_OfferAlwaysReceived ==
    /\ last.op = "offer" =>
          /\ peers[last.peer].offer = last.arg.signal
          /\ last.peer \notin DOMAIN active_connections =>
                last.resp = [status |-> "Offer received"]
    /\ (last.op = "send" /\ last.arg.by = 0) =>
          /\ last.resp.http = [status |-> "Offer received"]
          /\ peers = last.resp.mailbox
          /\ ~last.resp.delivered => last.peer \notin DOMAIN active_connections

\* C10 happens: the push of an offer failed, the offer is stored all the same
C10_Witness ==
    /\ last.op = "send"
    /\ last.arg.by = 0
    /\ ~last.resp.delivered
    /\ last.peer \in DOMAIN peers
    /\ peers[last.peer].offer = last.arg.request.signal
    /\ last.peer \notin DOMAIN active_connections

\* C11: a ping received on a channel is answered by a pong sent on that same
\* channel, whatever the registry holds.  (Fails: the pong goes to the channel
\* registered under the client's id, which may be another one, or none.)
C11_PongOnSameChannel ==
    /\ (last.op = "frame" /\ last.arg.frame = "ping") =>
          \E s \in sends : /\ s.by = last.arg.websocket
                           /\ s.msg = [type |-> "pong"]
                           /\ s.websocket = last.arg.websocket
    /\ (last.op = "send" /\ last.arg.by # 0 /\ last.resp.delivered) =>
          last.arg.websocket = last.arg.by

(* ======================================================================= *)
(*                 Properties of the handlers and the registry              *)
(* ======================================================================= *)
\* C12: POST /answer and POST /ice-candidate send nothing on any channel and
\* leave the registry and every channel alone, also when the recipient has a
\* registered channel; what they stored is in the recipient's mailbox, where
\* the drain finds it.
C12_AnswerAndCandidateNotPushed ==
    [][last'.op \in {"answer", "ice-candidate"} =>
          /\ sends' = sends
          /\ active_connections' = active_connections
          /\ ws' = ws
          /\ open' = open
          /\ last'.peer \in DOMAIN peers'
          /\ last'.op = "answer" => peers'[last'.peer].answer = last'.arg
          /\ last'.op = "ice-candidate" =>
                 /\ Len(peers'[last'.peer].candidates) > 0
                 /\ peers'[last'.peer].candidates[Len(peers'[last'.peer].candidates)]
                        = last'.arg]_vars

\* a candidate arrives after an answer for a peer whose channel is registered
\* and open
C12_Witness ==
    /\ last.op = "ice-candidate"
    /\ hist[last.peer].answered
    /\ last.peer \in DOMAIN active_connections
    /\ open[active_connections[last.peer]]
    /\ ws[active_connections[last.peer]].pc = "receive"

\* C13: once the client of a channel whose handler is past the accept is gone,
\* whether the handler waits in receive_text or in the send_text of a pong,
\* the handler ends through its finally block, which runs disconnect: from
\* then on no registry entry resolves to the closed channel.
C13_DisconnectEventually ==
    /\ \A w \in Channels :
           (ws[w].pc \in {"receive", "send"} /\ ~open[w]) ~> (ws[w].pc = "closed")
    /\ [](\A w \in Channels :
             ws[w].pc = "closed" =>
                 \A c \in DOMAIN active_connections : active_connections[c] # w)

\* the handler of a channel that was still registered has just ended
C13_Witness ==
    /\ last.op = "ws_closed"
    /\ ws[last.arg].pc = "closed"
    /\ last.peer \in DOMAIN last.resp.registry
    /\ last.resp.registry[last.peer] = last.arg
    /\ last.peer \notin DOMAIN active_connections

\* C14: every operation that changes a record sets its last_updated to the
\* current time: POST /offer, POST /answer, POST /ice-candidate, and the drain
\* that cleared an answer or candidates.  (Fails: check_signals clears the
\* fields and leaves last_updated as it was.)
C14_RefreshedOnEveryMutation ==
    /\ last.op \in {"offer", "answer", "ice-candidate"} =>
           peers[last.peer].last_updated = now
    /\ (/\ last.op = "check"
        /\ last.resp.type = "check"
        /\ (last.resp.answer # Null \/ last.resp.has_candidates)) =>
           peers[last.peer].last_updated = now

\* C15: the sweep task never stops: after an iteration, whether its try block
\* raised or not, the task sleeps and runs another iteration, again and again.
C15_SweepNeverStops ==
    /\ [](sweeper = "sleep")
    /\ []<><<SweepIteration>>_vars

\* an iteration failed after it had deleted a record, and the task sleeps
C15_Witness ==
    /\ last.op = "sweep_failed"
    /\ last.arg.expired # {}
    /\ sweeper = "sleep"

\* C16: send_personal_message for an id without a registered channel returns
\* False at once: nothing is sent on any channel and the registry is as
\* before; called for a ping, the mailbox is untouched and the handler goes on
\* to its next receive_text; called by POST /offer, the mailbox holds what the
\* handler stored before the call and the handler returns its response.
C16_SendToUnregistered ==
    [][/\ (/\ last'.op = "frame"
           /\ last'.arg.frame = "ping"
           /\ last'.peer \notin DOMAIN active_connections) =>
              /\ last'.resp = [returned |-> FALSE]
              /\ sends' = sends
              /\ active_connections' = active_connections
              /\ peers' = peers
              /\ ws' = ws
       /\ (last'.op = "offer" /\ last'.peer \notin DOMAIN active_connections) =>
              /\ last'.resp = [status |-> "Offer received"]
              /\ sends' = sends
              /\ active_connections' = active_connections
              /\ ws' = ws
              /\ peers' = [get_peer_data(peers, last'.peer, now) EXCEPT
                              ![last'.peer].offer = last'.arg.signal,
                              ![last'.peer].last_updated = now]]_vars

\* a ping on an open channel whose id, registered before, is registered no more
C16_Witness ==
    /\ last.op = "frame"
    /\ last.arg.frame = "ping"
    /\ last.peer \notin DOMAIN active_connections
    /\ hist[last.peer].channel = last.arg.websocket
    /\ open[last.arg.websocket]
    /\ sends = {}

\* the registry `before` without the entry of client_id, the others as they were
Without(before, after, client_id) ==
    /\ DOMAIN after = DOMAIN before \ {client_id}
    /\ \A c \in DOMAIN after : after[c] = before[c]

\* C17: disconnect(client_id), called by the finally block of a handler or
\* after a failed send, removes the entry of client_id if there is one and
\* changes nothing if there is none, as in a second call in a row; the entries
\* of all other ids stay as they were, and the caller goes on.
C17_DisconnectIdempotent ==
    /\ last.op = "ws_closed" =>
           /\ Without(last.resp.registry, active_connections, last.peer)
           /\ last.peer \notin DOMAIN last.resp.registry =>
                  active_connections = last.resp.registry
           /\ ws[last.arg].pc = "closed"
    /\ (last.op = "send" /\ ~last.resp.delivered) =>
           /\ Without(last.resp.registry, active_connections, last.peer)
           /\ last.peer \notin DOMAIN last.resp.registry =>
                  active_connections = last.resp.registry

\* disconnect is called for an id that a disconnect before it removed already,
\* while another id is registered
C17_Witness ==
    /\ last.op = "ws_closed"
    /\ hist[last.peer].channel = last.arg
    /\ last.peer \notin DOMAIN last.resp.registry
    /\ active_connections # EmptyDict

\* C18: however the handlers of one peer interleave, its record holds exactly
\* the candidates appended and not yet returned, in arrival order; a drain
\* answers with the offer, the answer and all the candidates of the record as
\* it found it, leaves none of these candidates behind and touches no other
\* record; a candidate is appended behind the ones that wait.
C18_ConsistentSnapshot ==
    /\ \A p \in Peers :
           hist[p].queued = IF p \in DOMAIN peers THEN peers[p].candidates ELSE <<>>
    /\ (last.op = "check" /\ last.resp.type = "check") =>
           /\ last.resp.offer = last.arg.mailbox[last.peer].offer
           /\ last.resp.answer = last.arg.mailbox[last.peer].answer
           /\ last.resp.candidates = last.arg.mailbox[last.peer].candidates
           /\ peers[last.peer].candidates = <<>>
           /\ DOMAIN peers = DOMAIN last.arg.mailbox
           /\ \A q \in DOMAIN peers \ {last.peer} : peers[q] = last.arg.mailbox[q]
    /\ last.op = "ice-candidate" =>
           /\ Len(peers[last.peer].candidates) > 0
           /\ peers[last.peer].candidates[Len(peers[last.peer].candidates)] = last.arg

\* a drain returns an offer, an answer and two candidates, c2 before c1,
\* while the other peer has candidates waiting
C18_Witness ==
    /\ last.op = "check"
    /\ last.resp.type = "check"
    /\ last.resp.offer # Null
    /\ last.resp.answer # Null
    /\ last.resp.candidates = <<"c2", "c1">>
    /\ \E q \in DOMAIN peers \ {last.peer} : Len(peers[q].candidates) > 0

\* C19: every channel in the registry went through its accept and is
\* registered under the id of its own handler; a connect whose accept raised
\* leaves the registry as it was; a connect that registers sets the entry of
\* its id to its channel and leaves the entries of all other ids as they
\* were, in whatever order the accepts of several connects return.
C19_RegisteredAfterAccept ==
    /\ \A c \in DOMAIN active_connections :
           /\ ws[active_connections[c]].pc \in {"receive", "send"}
           /\ ws[active_connections[c]].client_id = c
    /\ last.op = "connect_failed" =>
           /\ active_connections = last.resp.registry
           /\ \A c \in DOMAIN active_connections : active_connections[c] # last.arg
    /\ last.op = "connect" =>
           /\ DOMAIN active_connections = DOMAIN last.resp.registry \cup {last.peer}
           /\ active_connections[last.peer] = last.arg
           /\ \A c \in DOMAIN last.resp.registry \ {last.peer} :
                  active_connections[c] = last.resp.registry[c]

\* two connects interleave: the channel opened first registers second, when
\* the other one is registered under another id
C19_Witness ==
    /\ last.op = "connect"
    /\ last.arg = 1
    /\ \E c \in DOMAIN last.resp.registry \ {last.peer} : last.resp.registry[c] = 2

\* C20: the channel registered last under an id stays registered under it for
\* as long as it is open and its handler runs: neither the end of the handler
\* of a channel it replaced nor a failed send on such a channel removes it.
\* (Fails: disconnect deletes by id, whatever channel the id resolves to.)
C20_LatestOpenChannelRegistered ==
    \A c \in Peers :
        (/\ hist[c].channel \in Channels
         /\ open[hist[c].channel]
         /\ ws[hist[c].channel].pc \in {"receive", "send"}) =>
            /\ c \in DOMAIN active_connections
            /\ active_connections[c] = hist[c].channel

====
